---------------------------- MODULE Spec2Model ----------------------------
(***************************************************************************)
(* Wire-primitive codecs of src/encoders.py as a state machine.            *)
(*                                                                         *)
(* Every codec is a pair of pure functions parse / serialize.  A behaviour *)
(* is one use of the library: a caller serializes a value (or is handed an *)
(* encoding), appends trailing bytes, and parses the buffer.               *)
(* StringEncoder.parse is a loop that need not terminate, so it is         *)
(* modelled one iteration of its while loop per step.                      *)
(*                                                                         *)
(* Python integers are unbounded.  They are represented here as 80-bit     *)
(* two's-complement numbers held in five 16-bit limbs, least significant   *)
(* limb first ("wide" integers); every value the modelled code computes on *)
(* the inputs below has magnitude below 2^79, so no operator wraps.        *)
(* Bytes, code points and sequence lengths are plain integers.             *)
(***************************************************************************)
EXTENDS Integers, Sequences, FiniteSets

---------------------------------------------------------------------------
(* Python values: results, exceptions, integers                            *)

Ok(v) == [tag |-> "ok", val |-> v]

Raise(kind, who) == [tag |-> "raise", val |-> kind, by |-> who]

IsOk(r) == r.tag = "ok"

IsRaise(r) == r.tag = "raise"

None == [tag |-> "none"]

EncoderParseResult(v, s) == Ok([value |-> v, size |-> s])

Min(a, b) == IF a < b THEN a ELSE b

\* Bits in a wide integer: five limbs of 16.
NBits == 16 * 5

\* The wide integer equal to the plain integer i.
W(i) ==
  LET ext == IF i < 0 THEN 65535 ELSE 0
  IN  <<i % 65536, (i \div 65536) % 65536, ext, ext, ext>>

WNeg(w) == w[5] >= 32768

\* Bit k of w in infinite two's complement.
WBit(w, k) ==
  IF k >= NBits THEN (IF WNeg(w) THEN 1 ELSE 0)
  ELSE (w[(k \div 16) + 1] \div (2 ^ (k % 16))) % 2

\* a & b and a | b of two limbs.
RECURSIVE LimbAnd(_, _)
LimbAnd(a, b) ==
  IF a = 0 \/ b = 0 THEN 0
  ELSE (a % 2) * (b % 2) + 2 * LimbAnd(a \div 2, b \div 2)

RECURSIVE LimbOr(_, _)
LimbOr(a, b) ==
  IF a = 0 THEN b
  ELSE IF b = 0 THEN a
  ELSE (IF (a % 2) + (b % 2) > 0 THEN 1 ELSE 0) + 2 * LimbOr(a \div 2, b \div 2)

\* a & b, a | b, ~a, a << s, a >> s of Python integers.
WAnd(a, b) ==
  <<LimbAnd(a[1], b[1]), LimbAnd(a[2], b[2]), LimbAnd(a[3], b[3]),
    LimbAnd(a[4], b[4]), LimbAnd(a[5], b[5])>>

WOr(a, b) ==
  <<LimbOr(a[1], b[1]), LimbOr(a[2], b[2]), LimbOr(a[3], b[3]),
    LimbOr(a[4], b[4]), LimbOr(a[5], b[5])>>

WNot(a) == <<65535 - a[1], 65535 - a[2], 65535 - a[3], 65535 - a[4], 65535 - a[5]>>

WShl(a, s) ==
  LET q == s \div 16
      r == s % 16
      at(m) == IF m < 1 THEN 0 ELSE a[m]
      limb(n) == (at(n - q) % (2 ^ (16 - r))) * (2 ^ r)
                 + (at(n - q - 1) \div (2 ^ (16 - r)))
  IN  <<limb(1), limb(2), limb(3), limb(4), limb(5)>>

WShr(a, s) ==
  LET q == s \div 16
      r == s % 16
      at(m) == IF m > 5 THEN (IF WNeg(a) THEN 65535 ELSE 0) ELSE a[m]
      limb(n) == (at(n + q) \div (2 ^ r))
                 + (at(n + q + 1) % (2 ^ r)) * (2 ^ (16 - r))
  IN  <<limb(1), limb(2), limb(3), limb(4), limb(5)>>

\* The low `bits` bits of a: a % 2^bits for a Python integer of either sign.
WLowBits(a, bits) ==
  LET q == bits \div 16
      r == bits % 16
      limb(n) == IF n <= q THEN a[n] ELSE IF n = q + 1 THEN a[n] % (2 ^ r) ELSE 0
  IN  <<limb(1), limb(2), limb(3), limb(4), limb(5)>>

RECURSIVE WLessFrom(_, _, _)
WLessFrom(a, b, n) ==
  IF n = 0 THEN FALSE
  ELSE IF a[n] # b[n] THEN a[n] < b[n]
  ELSE WLessFrom(a, b, n - 1)

\* a < b and a <= b on Python integers.
WLt(a, b) ==
  IF WNeg(a) # WNeg(b) THEN WNeg(a) ELSE WLessFrom(a, b, 5)

WLe(a, b) == a = b \/ WLt(a, b)

\* The plain integer equal to w, for 0 <= w < 2^31.
WToInt(w) == w[1] + 65536 * w[2]

\* The low `length` bytes of v, most significant first.
RECURSIVE BigEndian(_, _)
BigEndian(v, length) ==
  IF length = 0 THEN <<>>
  ELSE Append(BigEndian(WShr(v, 8), length - 1), v[1] % 256)

\* int.to_bytes(length, byteorder="big", signed=signed)
to_bytes(v, length, signed) ==
  LET fits ==
        IF signed
        THEN \A k \in (8 * length - 1)..NBits : WBit(v, k) = WBit(v, NBits)
        ELSE \A k \in (8 * length)..NBits : WBit(v, k) = 0
  IN  IF ~fits THEN Raise("OverflowError", "int.to_bytes")
      ELSE Ok(BigEndian(v, length))

\* int.from_bytes(bytes, byteorder="big", signed=signed)
from_bytes(bytes, signed) ==
  LET m == Len(bytes)
      ext == IF signed /\ m > 0 /\ bytes[1] >= 128 THEN 255 ELSE 0
      byteAt(p) == IF p < m THEN bytes[m - p] ELSE ext
      limb(n) == byteAt(2 * (n - 1)) + 256 * byteAt(2 * (n - 1) + 1)
  IN  <<limb(1), limb(2), limb(3), limb(4), limb(5)>>

\* data[lo:hi] of a bytes object or a str (0-based, end exclusive).
Slice(data, lo, hi) ==
  IF lo >= Min(hi, Len(data)) THEN <<>>
  ELSE SubSeq(data, lo + 1, Min(hi, Len(data)))

---------------------------------------------------------------------------
(* Fixed-width codecs                                                      *)

BooleanEncoder_parse(data) ==
  IF Len(data) = 0 THEN Raise("IndexError", "BooleanEncoder")
  ELSE EncoderParseResult(data[1] # 0, 1)

BooleanEncoder_serialize(value) == Ok(<<IF value THEN 1 ELSE 0>>)

ByteEncoder_parse(data) ==
  EncoderParseResult(from_bytes(Slice(data, 0, 1), TRUE), 1)

ByteEncoder_serialize(value) ==
  IF ~(WLe(W(-128), value) /\ WLe(value, W(127)))
  THEN Raise("ValueError", "ByteEncoder")
  ELSE to_bytes(value, 1, TRUE)

UnsignedByteEncoder_parse(data) ==
  EncoderParseResult(from_bytes(Slice(data, 0, 1), FALSE), 1)

UnsignedByteEncoder_serialize(value) ==
  IF ~(WLe(W(0), value) /\ WLe(value, W(255)))
  THEN Raise("ValueError", "UnsignedByteEncoder")
  ELSE to_bytes(value, 1, FALSE)

ShortEncoder_parse(data) ==
  EncoderParseResult(from_bytes(Slice(data, 0, 2), TRUE), 2)

ShortEncoder_serialize(value) ==
  IF ~(WLe(W(-32768), value) /\ WLe(value, W(23767)))
  THEN Raise("ValueError", "ShortEncoder")
  ELSE to_bytes(value, 2, TRUE)

UnsignedShortEncoder_parse(data) ==
  EncoderParseResult(from_bytes(Slice(data, 0, 2), FALSE), 2)

UnsignedShortEncoder_serialize(value) ==
  IF ~(WLe(W(0), value) /\ WLe(value, W(65535)))
  THEN Raise("ValueError", "UnsignedShortEncoder")
  ELSE to_bytes(value, 2, FALSE)

IntEncoder_parse(data) ==
  EncoderParseResult(from_bytes(Slice(data, 0, 4), TRUE), 4)

IntEncoder_serialize(value) ==
  IF ~(WLe(W(-2147483647 - 1), value) /\ WLe(value, W(2147483647)))
  THEN Raise("ValueError", "IntEncoder")
  ELSE to_bytes(value, 4, TRUE)

LongEncoder_parse(data) ==
  EncoderParseResult(from_bytes(Slice(data, 0, 8), TRUE), 8)

\* -9223372036854775808 and 9223372036854775807 as wide integers.
LongEncoder_serialize(value) ==
  IF ~(WLe(<<0, 0, 0, 32768, 65535>>, value)
       /\ WLe(value, <<65535, 65535, 65535, 32767, 0>>))
  THEN Raise("ValueError", "LongEncoder")
  ELSE to_bytes(value, 8, TRUE)

\* struct.unpack(">f", data)[0]: the float is held as its IEEE-754 binary32
\* fields, which determine it.
FloatEncoder_parse(data) ==
  IF Len(data) # 4 THEN Raise("struct.error", "FloatEncoder")
  ELSE LET w == from_bytes(data, FALSE)
       IN  EncoderParseResult(
             [sign |-> WBit(w, 31),
              exponent |-> WToInt(WLowBits(WShr(w, 23), 8)),
              fraction |-> WLowBits(w, 23)], 4)

\* struct.unpack(">d", data)[0], held as its IEEE-754 binary64 fields.
DoubleEncoder_parse(data) ==
  IF Len(data) # 8 THEN Raise("struct.error", "DoubleEncoder")
  ELSE LET w == from_bytes(data, FALSE)
       IN  EncoderParseResult(
             [sign |-> WBit(w, 63),
              exponent |-> WToInt(WLowBits(WShr(w, 52), 11)),
              fraction |-> WLowBits(w, 52)], 8)

AngleEncoder_parse(data) == UnsignedByteEncoder_parse(data)

AngleEncoder_serialize(value) == UnsignedByteEncoder_serialize(value)

---------------------------------------------------------------------------
(* VarInt / VarLong                                                        *)

SEGMENT_BITS == W(127)

CONTINUE_BIT == W(128)

\* VarIntParseLoop with VarLongEncoder's limit of 64 bits.
RECURSIVE VarIntParseLoopWide(_, _, _, _)
VarIntParseLoopWide(data, value, position, size) ==
  LET current_byte == ByteEncoder_parse(Slice(data, size, Len(data))).val.value
      value2 == WOr(value, WShl(WAnd(current_byte, SEGMENT_BITS), position))
  IN  IF WAnd(current_byte, CONTINUE_BIT) = W(0)
      THEN EncoderParseResult(value2, size)
      ELSE IF position + 7 >= 64
      THEN Raise("ValueError", "VarIntEncoder")
      ELSE VarIntParseLoopWide(data, value2, position + 7, size + 1)

\* One pass of VarIntEncoder.parse's while loop and the passes after it.
RECURSIVE VarIntParseLoop(_, _, _, _)
VarIntParseLoop(data, value, position, size) ==
  LET current_byte == ByteEncoder_parse(Slice(data, size, Len(data))).val.value
      value2 == WOr(value, WShl(WAnd(current_byte, SEGMENT_BITS), position))
  IN  IF WAnd(current_byte, CONTINUE_BIT) = W(0)
      THEN EncoderParseResult(value2, size)
      ELSE IF position + 7 >= 32
      THEN Raise("ValueError", "VarIntEncoder")
      ELSE VarIntParseLoop(data, value2, position + 7, size + 1)

VarIntEncoder_parse(data) == VarIntParseLoop(data, W(0), 0, 0)

RECURSIVE VarIntEncoder_serialize(_)
VarIntEncoder_serialize(value) ==
  IF WAnd(value, WNot(SEGMENT_BITS)) # W(0)
  THEN LET head == ByteEncoder_serialize(WOr(WAnd(value, SEGMENT_BITS), CONTINUE_BIT))
       IN  IF IsRaise(head) THEN head
           ELSE LET rest == VarIntEncoder_serialize(WShr(WLowBits(value, 28), 7))
                IN  IF IsRaise(rest) THEN rest ELSE Ok(head.val \o rest.val)
  ELSE ByteEncoder_serialize(value)

RECURSIVE VarLongParseLoop(_, _, _, _)
VarLongParseLoop(data, value, position, size) ==
  LET current_byte == ByteEncoder_parse(Slice(data, size, Len(data))).val.value
      value2 == WOr(value, WShl(WAnd(current_byte, SEGMENT_BITS), position))
  IN  IF WAnd(current_byte, CONTINUE_BIT) = W(0)
      THEN EncoderParseResult(value2, size)
      ELSE IF position + 7 >= 64
      THEN Raise("ValueError", "VarLongEncoder")
      ELSE VarLongParseLoop(data, value2, position + 7, size + 1)

VarLongEncoder_parse(data) == VarLongParseLoop(data, W(0), 0, 0)

RECURSIVE VarLongEncoder_serialize(_)
VarLongEncoder_serialize(value) ==
  IF WAnd(value, WNot(SEGMENT_BITS)) # W(0)
  THEN LET head == ByteEncoder_serialize(WOr(WAnd(value, SEGMENT_BITS), CONTINUE_BIT))
       IN  IF IsRaise(head) THEN head
           ELSE LET rest == VarLongEncoder_serialize(WShr(WLowBits(value, 64), 7))
                IN  IF IsRaise(rest) THEN rest ELSE Ok(head.val \o rest.val)
  ELSE ByteEncoder_serialize(value)

---------------------------------------------------------------------------
(* Position                                                                *)

Position(x, y, z) == [x |-> x, y |-> y, z |-> z]

\* The masks 0xffffffc0, 0xffffff0 and 0xfff.
PositionEncoder_parse(data) ==
  EncoderParseResult(
    Position(WAnd(from_bytes(Slice(data, 0, 4), TRUE), <<65472, 65535, 0, 0, 0>>),
             WAnd(from_bytes(Slice(data, 3, 7), TRUE), <<65520, 4095, 0, 0, 0>>),
             WAnd(from_bytes(Slice(data, 6, 8), TRUE), W(4095))),
    8)

PositionEncoder_serialize(value) ==
  to_bytes(WOr(WOr(WShl(value.x, 38), WShl(value.y, 12)), value.z), 8, TRUE)

---------------------------------------------------------------------------
(* Text: a str is a sequence of code points, a bytes object a sequence of  *)
(* integers 0..255                                                         *)

IsSurrogate(c) == 55296 <= c /\ c <= 57343

IsContinuation(b) == 128 <= b /\ b <= 191

\* The UTF-8 bytes of one code point.
Utf8Char(c) ==
  IF c < 128 THEN <<c>>
  ELSE IF c < 2048 THEN <<192 + (c \div 64), 128 + (c % 64)>>
  ELSE IF c < 65536
  THEN <<224 + (c \div 4096), 128 + ((c \div 64) % 64), 128 + (c % 64)>>
  ELSE <<240 + (c \div 262144), 128 + ((c \div 4096) % 64),
         128 + ((c \div 64) % 64), 128 + (c % 64)>>

\* The UTF-8 bytes of the code points s[lo..hi], in order.
RECURSIVE Utf8Concat(_, _, _)
Utf8Concat(s, lo, hi) ==
  IF lo > hi THEN <<>>
  ELSE IF lo = hi THEN Utf8Char(s[lo])
  ELSE LET mid == (lo + hi) \div 2
       IN  Utf8Concat(s, lo, mid) \o Utf8Concat(s, mid + 1, hi)

\* str.encode("utf-8")
str_encode(s) ==
  IF \E k \in 1..Len(s) : IsSurrogate(s[k])
  THEN Raise("UnicodeEncodeError", "str.encode")
  ELSE Ok(Utf8Concat(s, 1, Len(s)))

\* bytes.decode("utf-8"), strict: the code points, or <<-1>> followed by
\* anything when some byte starts no well-formed sequence.
RECURSIVE Utf8Scan(_)
Utf8Scan(b) ==
  IF b = <<>> THEN <<>>
  ELSE LET n == Len(b)
           b1 == b[1]
           rest(k) == SubSeq(b, k + 1, n)
       IN  IF b1 < 128 THEN <<b1>> \o Utf8Scan(rest(1))
           ELSE IF 194 <= b1 /\ b1 <= 223 /\ n >= 2 /\ IsContinuation(b[2])
           THEN <<(b1 - 192) * 64 + (b[2] - 128)>> \o Utf8Scan(rest(2))
           ELSE IF 224 <= b1 /\ b1 <= 239 /\ n >= 3
                   /\ IsContinuation(b[2]) /\ IsContinuation(b[3])
                   /\ (b1 = 224 => b[2] >= 160)
                   /\ (b1 = 237 => b[2] <= 159)
           THEN <<(b1 - 224) * 4096 + (b[2] - 128) * 64 + (b[3] - 128)>>
                \o Utf8Scan(rest(3))
           ELSE IF 240 <= b1 /\ b1 <= 244 /\ n >= 4
                   /\ IsContinuation(b[2]) /\ IsContinuation(b[3])
                   /\ IsContinuation(b[4])
                   /\ (b1 = 240 => b[2] >= 144)
                   /\ (b1 = 244 => b[2] <= 143)
           THEN <<(b1 - 240) * 262144 + (b[2] - 128) * 4096
                  + (b[3] - 128) * 64 + (b[4] - 128)>> \o Utf8Scan(rest(4))
           ELSE <<-1>>

bytes_decode(b) ==
  LET s == Utf8Scan(b)
  IN  IF \E k \in 1..Len(s) : s[k] = -1
      THEN Raise("UnicodeDecodeError", "bytes.decode")
      ELSE Ok(s)

---------------------------------------------------------------------------
(* String                                                                  *)

StringEncoder_serialize(value) ==
  IF ~(1 <= Len(value) /\ Len(value) <= 32767)
  THEN Raise("ValueError", "StringEncoder")
  ELSE LET prefix == VarIntEncoder_serialize(W(Len(value)))
       IN  IF IsRaise(prefix) THEN prefix
           ELSE LET text == str_encode(value)
                IN  IF IsRaise(text) THEN text ELSE Ok(prefix.val \o text.val)

\* The head of StringEncoder.parse: the length prefix and its range check.
StringParseHead(data) ==
  LET length == VarIntEncoder_parse(data)
  IN  IF IsRaise(length) THEN length
      ELSE IF ~(WLe(W(0), length.val.value) /\ WLe(length.val.value, W(32767)))
      THEN Raise("ValueError", "StringEncoder")
      ELSE length

\* The while condition: len(value) < length.value.
StringParseMore(value, length) == WLt(W(Len(value)), length.val.value)

\* data[i:i + c_len].decode("utf-8")
StringParseAttempt(data, i, c_len) == bytes_decode(Slice(data, i, i + c_len))

\* One pass of the while body: the for loop over c_len = 1, 2, 3 takes the
\* first attempt that decodes and breaks; when none does, the pass changes
\* nothing.
StringParsePass(data, i, value) ==
  LET good == {c_len \in 1..3 : IsOk(StringParseAttempt(data, i, c_len))}
  IN  IF good = {} THEN [value |-> value, i |-> i]
      ELSE LET c_len == CHOOSE c \in good : \A d \in good : c <= d
           IN  [value |-> value \o StringParseAttempt(data, i, c_len).val,
                i |-> i + c_len]

StringParseResult(value, length) ==
  EncoderParseResult(value, length.val.size + Len(str_encode(value).val))

---------------------------------------------------------------------------
(* Identifier                                                              *)

Identifier(namespace, name) == [namespace |-> namespace, name |-> name]

\* "minecraft:"
DefaultNamespace == <<109, 105, 110, 101, 99, 114, 97, 102, 116, 58>>

\* [a-z0-9_\-.]
IsNamespaceChar(c) ==
  \/ (97 <= c /\ c <= 122)
  \/ (48 <= c /\ c <= 57)
  \/ c \in {95, 45, 46}

\* [a-z0-9_\-./]
IsNameChar(c) == IsNamespaceChar(c) \/ c = 47

\* re.match(r"^[a-z0-9_\-.]+:[a-z0-9_\-./]+$", s) is not None; "$" also
\* matches before a final newline.
IdentifierMatches(s) ==
  LET n == IF Len(s) > 0 /\ s[Len(s)] = 10 THEN Len(s) - 1 ELSE Len(s)
  IN  \E p \in 2..(n - 1) :
        /\ s[p] = 58
        /\ \A k \in 1..(p - 1) : IsNamespaceChar(s[k])
        /\ \A k \in (p + 1)..n : IsNameChar(s[k])

HasColon(s) == \E k \in 1..Len(s) : s[k] = 58

\* IdentifierEncoder.parse after StringEncoder.parse has returned `string`.
IdentifierFromString(string) ==
  LET defaulted ==
        IF ~HasColon(string.value)
        THEN [value |-> DefaultNamespace \o string.value, size |-> string.size + 10]
        ELSE string
      text == defaulted.value
  IN  IF ~IdentifierMatches(text) THEN Raise("ValueError", "IdentifierEncoder")
      ELSE LET p == CHOOSE k \in 1..Len(text) : text[k] = 58
           IN  EncoderParseResult(
                 Identifier(SubSeq(text, 1, p - 1), SubSeq(text, p + 1, Len(text))),
                 defaulted.size)

IdentifierEncoder_serialize(value) ==
  StringEncoder_serialize(value.namespace \o <<58>> \o value.name)

---------------------------------------------------------------------------
(* The inputs a caller draws from                                          *)

\* Longest text, in characters, drawn from TextChars.
MaxTextLen == 2

\* Longest raw buffer handed to StringEncoder.parse / IdentifierEncoder.parse.
MaxTextBuf == 3

\* Longest raw buffer handed to VarIntEncoder.parse.
MaxVarIntBuf == 6

\* Longest raw buffer handed to VarLongEncoder.parse.
MaxVarLongBuf == 11

\* Longest run of trailing bytes behind an encoding.
MaxTrail == 1

\* Passes of StringEncoder.parse's loop that assemble no character which
\* the model follows before it stops following the call.
MaxRetries == 2

RECURSIVE SeqsUpTo(_, _)
SeqsUpTo(S, n) ==
  IF n = 0 THEN {<<>>}
  ELSE LET shorter == SeqsUpTo(S, n - 1)
       IN  shorter \cup {Append(q, x) : q \in {r \in shorter : Len(r) = n - 1}, x \in S}

Trailing == SeqsUpTo({0, 255}, MaxTrail)

ByteValues == {W(v) : v \in {-129, -128, -1, 0, 1, 127, 128}}

UnsignedByteValues == {W(v) : v \in {-1, 0, 1, 128, 255, 256}}

ShortValues == {W(v) : v \in {-32769, -32768, -1, 0, 1, 23767, 23768, 32767, 32768}}

UnsignedShortValues == {W(v) : v \in {-1, 0, 1, 32768, 65535, 65536}}

\* 2^31 and -2^31 - 1 included.
IntValues ==
  {W(v) : v \in {-2147483647 - 1, -1, 0, 1, 65536, 2147483647}}
    \cup {<<0, 32768, 0, 0, 0>>, <<65535, 32767, 65535, 65535, 65535>>}

\* -2^63 - 1, -2^63, 2^63 - 1 and 2^63 included.
LongValues ==
  {W(v) : v \in {-1, 0, 1, 2147483647}}
    \cup {<<65535, 65535, 65535, 32767, 65535>>, <<0, 0, 0, 32768, 65535>>,
          <<65535, 65535, 65535, 32767, 0>>, <<0, 0, 0, 32768, 0>>}

\* 2^32 - 1 and 2^63 - 1 included.
VarIntValues ==
  {W(v) : v \in {-2147483647 - 1, -1, 0, 1, 2, 127, 128, 255, 300, 16383, 16384,
                 2097151, 2097152, 268435455, 268435456, 2147483647}}
    \cup {<<65535, 65535, 0, 0, 0>>}

VarLongValues == VarIntValues \cup {<<65535, 65535, 65535, 32767, 0>>}

PositionValues ==
  {Position(W(x), W(y), W(z)) :
     x \in {-33554432, -1, 0, 1, 33554431},
     y \in {-33554432, -1, 0, 1, 33554431},
     z \in {-2048, -1, 0, 1, 2047}}

\* "a", ":", "A", U+00E9, U+20AC, U+1F600: 1, 1, 1, 2, 3 and 4 bytes of UTF-8.
TextChars == {97, 58, 65, 233, 8364, 128512}

LongText(n) == [k \in 1..n |-> 97]

TextValues ==
  SeqsUpTo(TextChars, MaxTextLen)
    \cup {<<97, 58, 97>>, <<65, 58, 97>>, <<97, 97, 97>>}
    \cup {LongText(n) : n \in {127, 128, 32767, 32768}}

IdentifierValues ==
  {Identifier(ns, name) : ns \in {<<97>>, <<65>>}, name \in {<<97>>, <<97, 47, 97>>}}

RawBytes == {0, 127, 128, 255}

VarIntBuffers == SeqsUpTo(RawBytes, MaxVarIntBuf)

VarLongBuffers == SeqsUpTo({1, 255}, MaxVarLongBuf)

FixedBuffers == SeqsUpTo({0, 128, 255}, 2)

FloatBuffers ==
  {e \o t : e \in {<<0, 0, 0>>, <<0, 0, 0, 0>>, <<63, 128, 0, 0>>, <<255, 128, 0, 1>>},
            t \in Trailing}

DoubleBuffers ==
  {e \o t : e \in {<<0, 0, 0, 0, 0, 0, 0>>, <<0, 0, 0, 0, 0, 0, 0, 0>>,
                   <<63, 240, 0, 0, 0, 0, 0, 0>>, <<191, 240, 0, 0, 0, 0, 0, 1>>},
            t \in Trailing}

PositionBuffers ==
  {e \o t : e \in {<<0, 0, 0, 0, 0, 0, 0, 0>>, <<0, 0, 0, 64, 0, 0, 16, 1>>,
                   <<255, 255, 255, 255, 255, 255, 255, 255>>, <<1, 2, 3>>},
            t \in Trailing}

\* 0x2E bytes whose first, the length prefix, is "." itself.
LongIdentifierBuffer(colon) ==
  [k \in 1..46 |-> IF k = 1 THEN 46 ELSE IF k = colon THEN 58 ELSE 97]

\* NUL, 2, 3, "a", and bytes that lead or continue longer sequences.
TextBuffers ==
  SeqsUpTo({0, 2, 3, 97, 195, 226, 130, 255}, MaxTextBuf)
    \cup {<<2, 226, 130, 172>>, <<2, 240, 159, 152, 128>>, <<129, 0, 97>>}
    \cup {LongIdentifierBuffer(0), LongIdentifierBuffer(3)}

---------------------------------------------------------------------------
(* The state machine                                                       *)

VARIABLES
  pc,       \* "idle", "serialized", "loop" (inside StringEncoder.parse),
            \* "returned" (StringEncoder.parse back in IdentifierEncoder.parse),
            \* "done"
  codec,    \* the codec whose serialize was called, or "none"
  input,    \* the value given to serialize
  wire,     \* what serialize returned or raised
  parser,   \* the codec whose parse was called, or "none"
  data,     \* the buffer given to parse
  length,   \* StringEncoder.parse: the parsed length prefix
  value,    \* StringEncoder.parse: the characters assembled so far
  i,        \* StringEncoder.parse: the read position
  retries,  \* passes of the while loop so far that assembled no character
  result    \* what parse returned or raised

vars == <<pc, codec, input, wire, parser, data, length, value, i, retries, result>>

Init ==
  /\ pc = "idle"
  /\ codec = "none"
  /\ input = None
  /\ wire = None
  /\ parser = "none"
  /\ data = <<>>
  /\ length = None
  /\ value = <<>>
  /\ i = 0
  /\ retries = 0
  /\ result = None

\* A call of c.serialize(v) that ends with r.
Serialized(c, v, r) ==
  /\ pc = "idle"
  /\ pc' = "serialized"
  /\ codec' = c
  /\ input' = v
  /\ wire' = r
  /\ UNCHANGED <<parser, data, length, value, i, retries, result>>

\* The buffers c.parse may be given: what c.serialize returned followed by
\* trailing bytes, or a buffer from elsewhere.
Buffers(c, raw) ==
  IF pc = "serialized" /\ codec = c /\ IsOk(wire) THEN {wire.val \o t : t \in Trailing}
  ELSE IF pc = "idle" THEN raw
  ELSE {}

\* A call of c.parse(d) that ends with r.
Parsed(c, d, r) ==
  /\ pc' = "done"
  /\ parser' = c
  /\ data' = d
  /\ result' = r
  /\ UNCHANGED <<codec, input, wire, length, value, i, retries>>

BooleanSerialize ==
  \E v \in BOOLEAN : Serialized("Boolean", v, BooleanEncoder_serialize(v))

BooleanParse ==
  \E d \in Buffers("Boolean", FixedBuffers) : Parsed("Boolean", d, BooleanEncoder_parse(d))

ByteSerialize ==
  \E v \in ByteValues : Serialized("Byte", v, ByteEncoder_serialize(v))

ByteParse ==
  \E d \in Buffers("Byte", FixedBuffers) : Parsed("Byte", d, ByteEncoder_parse(d))

UnsignedByteSerialize ==
  \E v \in UnsignedByteValues :
    Serialized("UnsignedByte", v, UnsignedByteEncoder_serialize(v))

UnsignedByteParse ==
  \E d \in Buffers("UnsignedByte", FixedBuffers) :
    Parsed("UnsignedByte", d, UnsignedByteEncoder_parse(d))

ShortSerialize ==
  \E v \in ShortValues : Serialized("Short", v, ShortEncoder_serialize(v))

ShortParse ==
  \E d \in Buffers("Short", FixedBuffers) : Parsed("Short", d, ShortEncoder_parse(d))

UnsignedShortSerialize ==
  \E v \in UnsignedShortValues :
    Serialized("UnsignedShort", v, UnsignedShortEncoder_serialize(v))

UnsignedShortParse ==
  \E d \in Buffers("UnsignedShort", FixedBuffers) :
    Parsed("UnsignedShort", d, UnsignedShortEncoder_parse(d))

IntSerialize ==
  \E v \in IntValues : Serialized("Int", v, IntEncoder_serialize(v))

IntParse ==
  \E d \in Buffers("Int", FixedBuffers) : Parsed("Int", d, IntEncoder_parse(d))

LongSerialize ==
  \E v \in LongValues : Serialized("Long", v, LongEncoder_serialize(v))

LongParse ==
  \E d \in Buffers("Long", FixedBuffers) : Parsed("Long", d, LongEncoder_parse(d))

FloatParse ==
  \E d \in Buffers("Float", FloatBuffers) : Parsed("Float", d, FloatEncoder_parse(d))

DoubleParse ==
  \E d \in Buffers("Double", DoubleBuffers) : Parsed("Double", d, DoubleEncoder_parse(d))

AngleSerialize ==
  \E v \in UnsignedByteValues : Serialized("Angle", v, AngleEncoder_serialize(v))

AngleParse ==
  \E d \in Buffers("Angle", FixedBuffers) : Parsed("Angle", d, AngleEncoder_parse(d))

VarIntSerialize ==
  \E v \in VarIntValues : Serialized("VarInt", v, VarIntEncoder_serialize(v))

VarIntParse ==
  \E d \in Buffers("VarInt", VarIntBuffers) : Parsed("VarInt", d, VarIntEncoder_parse(d))

VarLongSerialize ==
  \E v \in VarLongValues : Serialized("VarLong", v, VarLongEncoder_serialize(v))

VarLongParse ==
  \E d \in Buffers("VarLong", VarLongBuffers) :
    Parsed("VarLong", d, VarLongEncoder_parse(d))

PositionSerialize ==
  \E v \in PositionValues : Serialized("Position", v, PositionEncoder_serialize(v))

PositionParse ==
  \E d \in Buffers("Position", PositionBuffers) :
    Parsed("Position", d, PositionEncoder_parse(d))

StringSerialize ==
  \E v \in TextValues : Serialized("String", v, StringEncoder_serialize(v))

IdentifierSerialize ==
  \E v \in IdentifierValues :
    Serialized("Identifier", v, IdentifierEncoder_serialize(v))

\* StringEncoder.parse(d) up to its while loop, called by c.parse.
StringParseEnter(c, d) ==
  LET head == StringParseHead(d)
  IN  /\ parser' = c
      /\ data' = d
      /\ value' = <<>>
      /\ i' = 0
      /\ IF IsRaise(head)
         THEN pc' = "done" /\ result' = head /\ length' = length
         ELSE pc' = "loop" /\ result' = result /\ length' = head
      /\ UNCHANGED <<codec, input, wire, retries>>

StringParse ==
  \E d \in Buffers("String", TextBuffers) : StringParseEnter("String", d)

\* IdentifierEncoder.parse is handed a String encoding.
IdentifierParse ==
  \E d \in Buffers("String", TextBuffers) \cup Buffers("Identifier", {}) :
    StringParseEnter("Identifier", d)

\* One pass of the while loop of StringEncoder.parse.
StringParseLoop ==
  /\ pc = "loop"
  /\ StringParseMore(value, length)
  /\ retries < MaxRetries
  /\ LET pass == StringParsePass(data, i, value)
     IN  /\ value' = pass.value
         /\ i' = pass.i
         /\ retries' = IF Len(pass.value) = Len(value) THEN retries + 1 ELSE retries
  /\ UNCHANGED <<pc, codec, input, wire, parser, data, length, result>>

\* The while loop ends and StringEncoder.parse returns.
StringParseReturn ==
  /\ pc = "loop"
  /\ ~StringParseMore(value, length)
  /\ result' = StringParseResult(value, length)
  /\ pc' = IF parser = "Identifier" THEN "returned" ELSE "done"
  /\ UNCHANGED <<codec, input, wire, parser, data, length, value, i, retries>>

\* The rest of IdentifierEncoder.parse.
IdentifierParseReturn ==
  /\ pc = "returned"
  /\ result' = IdentifierFromString(result.val)
  /\ pc' = "done"
  /\ UNCHANGED <<codec, input, wire, parser, data, length, value, i, retries>>

Next ==
  \/ BooleanSerialize \/ BooleanParse
  \/ ByteSerialize \/ ByteParse
  \/ UnsignedByteSerialize \/ UnsignedByteParse
  \/ ShortSerialize \/ ShortParse
  \/ UnsignedShortSerialize \/ UnsignedShortParse
  \/ IntSerialize \/ IntParse
  \/ LongSerialize \/ LongParse
  \/ FloatParse \/ DoubleParse
  \/ AngleSerialize \/ AngleParse
  \/ VarIntSerialize \/ VarIntParse
  \/ VarLongSerialize \/ VarLongParse
  \/ PositionSerialize \/ PositionParse
  \/ StringSerialize \/ StringParse \/ StringParseLoop \/ StringParseReturn
  \/ IdentifierSerialize \/ IdentifierParse \/ IdentifierParseReturn

Spec == Init /\ [][Next]_vars

FixedIntCodecs == {"Byte", "UnsignedByte", "Short", "UnsignedShort", "Int", "Long"}

\* c.parse(d) for the codecs whose parse is one expression.
ParseOf(c, d) ==
  CASE c = "Boolean" -> BooleanEncoder_parse(d)
    [] c = "Byte" -> ByteEncoder_parse(d)
    [] c = "UnsignedByte" -> UnsignedByteEncoder_parse(d)
    [] c = "Short" -> ShortEncoder_parse(d)
    [] c = "UnsignedShort" -> UnsignedShortEncoder_parse(d)
    [] c = "Int" -> IntEncoder_parse(d)
    [] c = "Long" -> LongEncoder_parse(d)
    [] c = "Float" -> FloatEncoder_parse(d)
    [] c = "Double" -> DoubleEncoder_parse(d)
    [] c = "Angle" -> AngleEncoder_parse(d)
    [] c = "VarInt" -> VarIntEncoder_parse(d)
    [] c = "VarLong" -> VarLongEncoder_parse(d)
    [] c = "Position" -> PositionEncoder_parse(d)

---------------------------------------------------------------------------
(* What the specification says, stated independently of the code           *)

\* 7 payload bits per byte, least-significant group first, 0x80 on every
\* byte but the last, of a wide integer u >= 0.
RECURSIVE Leb128(_)
Leb128(u) ==
  IF WLt(u, W(128)) THEN <<WToInt(u)>>
  ELSE <<128 + WToInt(WLowBits(u, 7))>> \o Leb128(WShr(u, 7))

InSigned32(v) == WLe(W(-2147483647 - 1), v) /\ WLe(v, W(2147483647))

\* The first n bytes of d all carry the continuation bit.
AllContinue(d, n) == Len(d) >= n /\ \A k \in 1..n : d[k] >= 128

\* Some byte among the first n of d has the continuation bit clear.
TerminatesWithin(d, n) == \E k \in 1..Min(n, Len(d)) : d[k] < 128

\* The number of bytes up to and including the first without the bit.
TerminatorIndex(d) ==
  CHOOSE k \in 1..Len(d) : d[k] < 128 /\ \A j \in 1..(k - 1) : d[j] >= 128

\* The declared bound of each fixed-width integer type.
DeclaredLow(c) ==
  CASE c = "Byte" -> W(-128)
    [] c = "UnsignedByte" -> W(0)
    [] c = "Short" -> W(-32768)
    [] c = "UnsignedShort" -> W(0)
    [] c = "Int" -> W(-2147483647 - 1)
    [] c = "Long" -> <<0, 0, 0, 32768, 65535>>

DeclaredHigh(c) ==
  CASE c = "Byte" -> W(127)
    [] c = "UnsignedByte" -> W(255)
    [] c = "Short" -> W(32767)
    [] c = "UnsignedShort" -> W(65535)
    [] c = "Int" -> W(2147483647)
    [] c = "Long" -> <<65535, 65535, 65535, 32767, 0>>

InDeclaredBound(c, v) == WLe(DeclaredLow(c), v) /\ WLe(v, DeclaredHigh(c))

\* C1: for every v in [-2^31, 2^31 - 1], VarIntEncoder.serialize(v) returns,
\* without error, the 1-to-5-byte encoding of the unsigned 32-bit pattern of
\* v (0 -> 00, 127 -> 7F, 128 -> 80 01, 2^31 - 1 -> FF FF FF FF 07,
\* -1 -> FF FF FF FF 0F).
C1_VarIntSerializeEncodes ==
  (codec = "VarInt" /\ InSigned32(input)) =>
    (IsOk(wire) /\ wire.val = Leb128(WLowBits(input, 32)))

\* C2: the size parse reports is the number of leading bytes the encoded
\* value occupies: for VarInt and VarLong on a well-terminated input, the
\* bytes read including the terminating one; for String,
\* parse(serialize(v)).size = len(serialize(v)).
C2_ParseSizeIsBytesConsumed ==
  /\ (pc = "done" /\ parser = "VarInt" /\ TerminatesWithin(data, 5)) =>
       (IsOk(result) /\ result.val.size = TerminatorIndex(data))
  /\ (pc = "done" /\ parser = "VarLong" /\ TerminatesWithin(data, 10)) =>
       (IsOk(result) /\ result.val.size = TerminatorIndex(data))
  /\ (pc = "done" /\ parser = "String" /\ codec = "String") =>
       (IsOk(result) /\ result.val.size = Len(wire.val))

\* C3: for every string s of 1 to 32767 characters,
\* StringEncoder.parse(StringEncoder.serialize(s)).value = s.
C3_StringRoundTrip ==
  (pc = "done" /\ parser = "String" /\ codec = "String" /\ data = wire.val) =>
    (IsOk(result) /\ result.val.value = input)

\* C4: StringEncoder.parse terminates on every buffer; a pass of its loop
\* that cannot assemble a character raises instead of trying the same
\* position again, so every pass that stays in the loop adds a character.
C4_StringParseNeverRetries ==
  [][(pc = "loop" /\ pc' = "loop") => Len(value') > Len(value)]_vars

\* C5: IdentifierEncoder.parse of the String encoding of t: for t without
\* ":" matching [a-z0-9_./-]+ it returns Identifier("minecraft", t) with the
\* String codec's size plus 10; for t = "ns:name" matching the grammar it
\* returns Identifier(ns, name) with the String codec's size; otherwise it
\* raises.
C5_IdentifierParse ==
  (pc = "done" /\ parser = "Identifier" /\ codec = "String" /\ data = wire.val) =>
    LET t == input
        string_size == StringParseResult(value, length).val.size
        colon == CHOOSE k \in 1..Len(t) : t[k] = 58
    IN  IF ~HasColon(t) /\ \A k \in 1..Len(t) : IsNameChar(t[k])
        THEN /\ IsOk(result)
             /\ result.val.value = Identifier(<<109, 105, 110, 101, 99, 114, 97, 102, 116>>, t)
             /\ result.val.size = string_size + 10
        ELSE IF /\ HasColon(t)
                /\ colon > 1
                /\ colon < Len(t)
                /\ \A k \in 1..(colon - 1) : IsNamespaceChar(t[k])
                /\ \A k \in (colon + 1)..Len(t) : IsNameChar(t[k])
        THEN /\ IsOk(result)
             /\ result.val.value =
                  Identifier(SubSeq(t, 1, colon - 1), SubSeq(t, colon + 1, Len(t)))
             /\ result.val.size = string_size
        ELSE IsRaise(result)

\* C6: each fixed-width integer codec serializes every v inside the type's
\* declared bound, extremes included, parse(serialize(v)).value = v, and
\* serialize raises exactly when v lies outside the bound.
C6_FixedWidthRoundTrip ==
  /\ (codec \in FixedIntCodecs) => (IsRaise(wire) <=> ~InDeclaredBound(codec, input))
  /\ (pc = "done" /\ codec \in FixedIntCodecs /\ parser = codec) =>
       (IsOk(result) /\ result.val.value = input)

\* C7: for every Position with x, y in [-2^25, 2^25 - 1] and z in
\* [-2^11, 2^11 - 1], PositionEncoder.serialize returns 8 bytes and
\* PositionEncoder.parse of them returns the same (x, y, z) with size 8.
C7_PositionRoundTrip ==
  /\ (codec = "Position") => (IsOk(wire) /\ Len(wire.val) = 8)
  /\ (pc = "done" /\ codec = "Position" /\ parser = "Position" /\ data = wire.val) =>
       result = EncoderParseResult(input, 8)

\* C8: parse ignores trailing bytes: for a valid encoding e and any bytes
\* t, parse(e ++ t) succeeds with the value and size of parse(e); every 4
\* (8) bytes are a valid Float (Double) encoding.
C8_TrailingBytesIgnored ==
  /\ (pc = "done" /\ codec = parser /\ parser \notin {"String", "Identifier"}) =>
       (IsOk(result) /\ result = ParseOf(parser, wire.val))
  /\ (pc = "done" /\ parser = "Float" /\ Len(data) >= 4) =>
       (IsOk(result) /\ result = FloatEncoder_parse(SubSeq(data, 1, 4)))
  /\ (pc = "done" /\ parser = "Double" /\ Len(data) >= 8) =>
       (IsOk(result) /\ result = DoubleEncoder_parse(SubSeq(data, 1, 8)))

\* C9: VarIntEncoder.parse raises on every input whose first 5 bytes all
\* have the continuation bit set, VarLongEncoder.parse on every input whose
\* first 10 bytes all have it set; every input that terminates within 5
\* (10) bytes is parsed without error.
C9_VarNumOverflow ==
  /\ (pc = "done" /\ parser = "VarInt") =>
       /\ AllContinue(data, 5) => IsRaise(result)
       /\ TerminatesWithin(data, 5) => IsOk(result)
  /\ (pc = "done" /\ parser = "VarLong") =>
       /\ AllContinue(data, 10) => IsRaise(result)
       /\ TerminatesWithin(data, 10) => IsOk(result)

\* VarIntEncoder.parse has raised on a buffer of five continuation bytes
\* followed by a terminating byte.
C9_Witness ==
  /\ pc = "done"
  /\ parser = "VarInt"
  /\ Len(data) = 6
  /\ AllContinue(data, 5)
  /\ data[6] < 128
  /\ IsRaise(result)

\* C10: StringEncoder.serialize(s) raises if and only if the character
\* count of s is outside [1, 32767]; otherwise it returns the VarInt
\* encoding of the count followed by the UTF-8 bytes of s.
C10_StringSerialize ==
  (codec = "String") =>
    /\ IsRaise(wire) <=> ~(1 <= Len(input) /\ Len(input) <= 32767)
    /\ IsOk(wire) => wire.val = Leb128(W(Len(input))) \o str_encode(input).val

=============================================================================
